---- MODULE Spec2Model ----
(***************************************************************************)
(* Model of the DFS-BFS map project: Map (map.py), DungeonGenerator        *)
(* (dungeon_generator.py), CavernGenerator (cavern_generator.py) and       *)
(* AIDirector (ai_director.py).                                            *)
(*                                                                         *)
(* A Map is a record [width, height, grid]; grid maps <<x, y>> to "#"      *)
(* (wall) or "." (floor).  Coordinates are zero based, x is the column.    *)
(***************************************************************************)
EXTENDS Integers, Sequences, FiniteSets, TLC

VARIABLES game_map, gen, pc, start_xy, stack, visited, passes, queue, popped,
          call, ret

vars == <<game_map, gen, pc, start_xy, stack, visited, passes, queue, popped,
          call, ret>>

(***************************************************************************)
(* Bounds of the model.                                                    *)
(***************************************************************************)
MaxDungeonWidth == 7
MaxDungeonHeight == 7
MaxCavernWidth == 5
MaxCavernHeight == 5
MaxCavernCells == 25
MaxSmoothing == 2
MaxMapWidth == 2
MaxMapHeight == 2
MaxGridWidth == 3
MaxGridHeight == 3
MaxGridCells == 9
MaxMinDistance == 3
MaxPathWidth == 3
MaxPathHeight == 3
MaxPathCells == 9

\* wall_probability, in hundredths.
WallProbabilities == {0, 45, 100}

\* The values random.random() returns, in hundredths: 0.0, the least value
\* of [0.0, 1.0), which no wall_probability is below, and 0.5.
Draws == {0, 50}

Chars == {"#", "."}

\* The last call made on the Map or the AIDirector and what it returned.  A
\* returned coordinate is <<x, y>>, None is <<>>.
NoCall ==
    [op |-> "none", x |-> 0, y |-> 0, end_x |-> 0, end_y |-> 0,
     char |-> "#", min_distance |-> 0]

NoRet == [cell |-> "#", flag |-> FALSE, path |-> -1, exit |-> <<>>]

(***************************************************************************)
(* map.py                                                                  *)
(***************************************************************************)
Cells(w, h) == (0 .. (w - 1)) \X (0 .. (h - 1))

NewMap(w, h) ==
    [width |-> w, height |-> h, grid |-> [c \in Cells(w, h) |-> "#"]]

\* set_cell without the lower bounds: a negative index of a Python list
\* counts from the end.
set_cell_negative_index(m, x, y, char) ==
    IF y < m.height /\ x < m.width /\ m.width > 0 /\ m.height > 0
    THEN [m EXCEPT !.grid[<<x % m.width, y % m.height>>] = char]
    ELSE m

set_cell(m, x, y, char) ==
    IF 0 <= y /\ y < m.height /\ 0 <= x /\ x < m.width
    THEN [m EXCEPT !.grid[<<x, y>>] = char]
    ELSE m

get_cell(m, x, y) ==
    IF 0 <= y /\ y < m.height /\ 0 <= x /\ x < m.width
    THEN m.grid[<<x, y>>]
    ELSE "#"

is_floor(m, x, y) == get_cell(m, x, y) = "."

is_wall(m, x, y) == get_cell(m, x, y) = "#"

in_bounds(m, x, y) == 0 <= x /\ x < m.width /\ 0 <= y /\ y < m.height

\* range(lo, hi) of Python as a set.
PyRange(lo, hi) == lo .. (hi - 1)

\* The cells of a map in the order of "for y in range(height): for x in
\* range(width)".
ScanOrder(w, h) ==
    [i \in 1 .. (w * h) |-> <<(i - 1) % w, (i - 1) \div w>>]

RECURSIVE FilterFloor(_, _, _)
FilterFloor(m, order, i) ==
    IF i > Len(order) THEN <<>>
    ELSE IF is_floor(m, order[i][1], order[i][2])
         THEN <<order[i]>> \o FilterFloor(m, order, i + 1)
         ELSE FilterFloor(m, order, i + 1)

get_all_floor_tiles(m) == FilterFloor(m, ScanOrder(m.width, m.height), 1)

count_wall_neighbors(m, x, y, radius) ==
    Cardinality({d \in ((0 - radius) .. radius) \X ((0 - radius) .. radius) :
                    /\ d # <<0, 0>>
                    /\ \/ ~in_bounds(m, x + d[1], y + d[2])
                       \/ is_wall(m, x + d[1], y + d[2])})

(***************************************************************************)
(* dungeon_generator.py                                                    *)
(***************************************************************************)
\* A constructor that keeps an even dimension.
CoerceOddKeepsEven(n) == n

CoerceOdd(n) == IF n % 2 = 1 THEN n ELSE n + 1

NewDungeonGenerator(w, h) ==
    [kind |-> "dungeon", width |-> CoerceOdd(w), height |-> CoerceOdd(h)]

\* randrange that ignores its step.
RandRangeEveryInteger(start, stop, step) == start .. (stop - 1)

\* The values random.randrange(start, stop, step) can return; the call
\* raises ValueError when there is none.
RandRange(start, stop, step) ==
    {n \in start .. (stop - 1) : (n - start) % step = 0}

DungeonDirections == {<<0, -2>>, <<0, 2>>, <<-2, 0>>, <<2, 0>>}

InitVisitedNone(start) == {}

InitVisited(start) == {start}

\* Neighbours checked for the bounds only.
DungeonNeighborsInBoundsOnly(m, cur, vis) ==
    {<<cur[1] + d[1], cur[2] + d[2], d[1], d[2]>> : d \in
        {e \in DungeonDirections :
            in_bounds(m, cur[1] + e[1], cur[2] + e[2])}}

\* The (nx, ny, dx, dy) tuples of the in-bounds unvisited neighbours.
DungeonNeighbors(m, cur, vis) ==
    {<<cur[1] + d[1], cur[2] + d[2], d[1], d[2]>> : d \in
        {e \in DungeonDirections :
            /\ in_bounds(m, cur[1] + e[1], cur[2] + e[2])
            /\ <<cur[1] + e[1], cur[2] + e[2]>> \notin vis}}

\* Carving the chosen neighbour only, not the wall between.
CarveToDestinationOnly(m, cur, n) == set_cell(m, n[1], n[2], ".")

\* Carving from cur to the chosen neighbour n = (nx, ny, dx, dy).
CarveTo(m, cur, n) ==
    LET mid_x == cur[1] + (n[3] \div 2)
        mid_y == cur[2] + (n[4] \div 2)
    IN set_cell(set_cell(m, mid_x, mid_y, "."), n[1], n[2], ".")

\* A chosen neighbour that is not added to visited.
MarkVisitedNothing(vis, n) == vis

\* visited.add((nx, ny))
MarkVisited(vis, n) == vis \cup {<<n[1], n[2]>>}

\* A pop that leaves the stack as it is.
PopStackKeepsTop(s) == s

\* stack.pop()
PopStack(s) == SubSeq(s, 1, Len(s) - 1)

DungeonBeginRaises ==
    /\ pc = "constructed"
    /\ gen.kind = "dungeon"
    /\ \/ RandRange(1, gen.width - 1, 2) = {}
       \/ RandRange(1, gen.height - 1, 2) = {}
    /\ game_map' = NewMap(gen.width, gen.height)
    /\ pc' = "raised"
    /\ UNCHANGED <<gen, stack, visited, passes, call, ret, start_xy, queue, popped>>

DungeonBegin ==
    /\ pc = "constructed"
    /\ gen.kind = "dungeon"
    /\ \E start_x \in RandRange(1, gen.width - 1, 2) :
         \E start_y \in RandRange(1, gen.height - 1, 2) :
            /\ start_xy' = <<start_x, start_y>>
            /\ stack' = <<<<start_x, start_y>>>>
            /\ visited' = InitVisited(<<start_x, start_y>>)
            /\ game_map' = set_cell(NewMap(gen.width, gen.height),
                                    start_x, start_y, ".")
    /\ pc' = "dfs"
    /\ UNCHANGED <<gen, passes, queue, popped, call, ret>>

DungeonCarve ==
    /\ pc = "dfs"
    /\ stack # <<>>
    /\ LET cur == stack[Len(stack)]
       IN \E n \in DungeonNeighbors(game_map, cur, visited) :
            /\ game_map' = CarveTo(game_map, cur, n)
            /\ visited' = MarkVisited(visited, n)
            /\ stack' = Append(stack, <<n[1], n[2]>>)
    /\ UNCHANGED <<gen, pc, passes, call, ret, start_xy, queue, popped>>

DungeonBacktrack ==
    /\ pc = "dfs"
    /\ stack # <<>>
    /\ DungeonNeighbors(game_map, stack[Len(stack)], visited) = {}
    /\ stack' = PopStack(stack)
    /\ UNCHANGED <<game_map, gen, pc, visited, passes, call, ret, start_xy, queue, popped>>

DungeonReturn ==
    /\ pc = "dfs"
    /\ stack = <<>>
    /\ pc' = "returned"
    /\ UNCHANGED <<game_map, gen, stack, visited, passes, call, ret, start_xy, queue, popped>>

(***************************************************************************)
(* cavern_generator.py                                                     *)
(***************************************************************************)
NewCavernGenerator(w, h, p, n) ==
    [kind |-> "cavern", width |-> w, height |-> h,
     wall_probability |-> p, smoothing_iterations |-> n]

SeedCellsToLastColumn(w, h) == PyRange(1, w) \X PyRange(1, h - 1)

\* The cells _random_seed visits: "for y in range(1, height - 1): for x in
\* range(1, width - 1)".
SeedCells(w, h) == PyRange(1, w - 1) \X PyRange(1, h - 1)

\* The cells _smooth visits, the same two ranges.
SmoothCells(w, h) == PyRange(1, w - 1) \X PyRange(1, h - 1)

\* draws[c] is the value random.random() returned for cell c.
RandomSeed(g, m, draws) ==
    [m EXCEPT !.grid =
        [c \in DOMAIN m.grid |->
            IF c \in SeedCells(g.width, g.height)
               /\ draws[c] > g.wall_probability
            THEN "." ELSE m.grid[c]]]

SmoothCell(m, x, y) ==
    LET wall_count == count_wall_neighbors(m, x, y, 1)
    IN IF is_wall(m, x, y)
       THEN (IF wall_count <= 4 THEN "." ELSE m.grid[<<x, y>>])
       ELSE (IF wall_count >= 5 THEN "#" ELSE m.grid[<<x, y>>])

\* A pass that writes each new value into the grid it is reading, cell by
\* cell in scan order from position i on.
RECURSIVE SmoothInPlaceFrom(_, _, _, _)
SmoothInPlaceFrom(g, m, order, i) ==
    IF i > Len(order) THEN m
    ELSE LET c == order[i]
         IN IF c \in SmoothCells(g.width, g.height)
            THEN SmoothInPlaceFrom(g,
                    [m EXCEPT !.grid[c] = SmoothCell(m, c[1], c[2])],
                    order, i + 1)
            ELSE SmoothInPlaceFrom(g, m, order, i + 1)

SmoothInPlace(g, m) ==
    SmoothInPlaceFrom(g, m, ScanOrder(g.width, g.height), 1)

\* _smooth: new_grid is a copy of the grid, every rule reads the grid and
\* writes new_grid, and new_grid replaces the grid at the end.
Smooth(g, m) ==
    [m EXCEPT !.grid =
        [c \in DOMAIN m.grid |->
            IF c \in SmoothCells(g.width, g.height)
            THEN SmoothCell(m, c[1], c[2]) ELSE m.grid[c]]]

ComponentDirections == <<<<0, 1>>, <<0, -1>>, <<1, 0>>, <<-1, 0>>>>

\* The "for dx, dy in directions" loop of _bfs_component from direction i
\* on; s = [queue, visited, component].
RECURSIVE ComponentExpand(_, _, _, _, _)
ComponentExpand(m, x, y, i, s) ==
    IF i > Len(ComponentDirections) THEN s
    ELSE LET nx == x + ComponentDirections[i][1]
             ny == y + ComponentDirections[i][2]
         IN IF in_bounds(m, nx, ny) /\ is_floor(m, nx, ny)
               /\ <<nx, ny>> \notin s.visited
            THEN ComponentExpand(m, x, y, i + 1,
                    [queue |-> Append(s.queue, <<nx, ny>>),
                     visited |-> s.visited \cup {<<nx, ny>>},
                     component |-> s.component \cup {<<nx, ny>>}])
            ELSE ComponentExpand(m, x, y, i + 1, s)

\* The "while queue" loop of _bfs_component.
RECURSIVE ComponentLoop(_, _)
ComponentLoop(m, s) ==
    IF s.queue = <<>> THEN s
    ELSE LET cur == Head(s.queue)
         IN ComponentLoop(m,
                ComponentExpand(m, cur[1], cur[2], 1,
                                [s EXCEPT !.queue = Tail(s.queue)]))

\* _bfs_component: the component of the start cell and the updated visited
\* set (the code mutates the caller's set).
bfs_component(m, start_x, start_y, vis) ==
    ComponentLoop(m, [queue |-> <<<<start_x, start_y>>>>,
                      visited |-> vis \cup {<<start_x, start_y>>},
                      component |-> {<<start_x, start_y>>}])

\* The component-finding scan of _ensure_connectivity from position i of the
\* scan order on; s = [visited, components].
RECURSIVE FindComponents(_, _, _, _)
FindComponents(m, order, i, s) ==
    IF i > Len(order) THEN s.components
    ELSE LET x == order[i][1]
             y == order[i][2]
         IN IF is_floor(m, x, y) /\ <<x, y>> \notin s.visited
            THEN LET r == bfs_component(m, x, y, s.visited)
                 IN FindComponents(m, order, i + 1,
                        [visited |-> r.visited,
                         components |-> Append(s.components, r.component)])
            ELSE FindComponents(m, order, i + 1, s)

\* The visited set of _ensure_connectivity after its first scan: every
\* cell of every component found.
ComponentsVisited(g, m) ==
    LET components == FindComponents(m, ScanOrder(g.width, g.height), 1,
                                     [visited |-> {}, components |-> <<>>])
    IN UNION {components[i] : i \in DOMAIN components}

\* The last of the components of maximal size.
MaxByLenLast(components) ==
    LET best == CHOOSE i \in 1 .. Len(components) :
                  /\ \A j \in 1 .. Len(components) :
                        Cardinality(components[j]) <= Cardinality(components[i])
                  /\ \A j \in (i + 1) .. Len(components) :
                        Cardinality(components[j]) < Cardinality(components[i])
    IN components[best]

\* max(components, key=len): the first of the components of maximal size.
MaxByLen(components) ==
    LET best == CHOOSE i \in 1 .. Len(components) :
                  /\ \A j \in 1 .. Len(components) :
                        Cardinality(components[j]) <= Cardinality(components[i])
                  /\ \A j \in 1 .. (i - 1) :
                        Cardinality(components[j]) < Cardinality(components[i])
    IN components[best]

\* The second scan of _ensure_connectivity: floor outside the kept component
\* becomes wall.
RemoveOthersNone(g, m, largest_component) == m

RemoveOthers(g, m, largest_component) ==
    [m EXCEPT !.grid =
        [c \in DOMAIN m.grid |->
            IF c \in Cells(g.width, g.height) /\ m.grid[c] = "."
               /\ c \notin largest_component
            THEN "#" ELSE m.grid[c]]]

ensure_connectivity(g, m) ==
    LET components == FindComponents(m, ScanOrder(g.width, g.height), 1,
                                     [visited |-> {}, components |-> <<>>])
    IN IF components = <<>>
       THEN set_cell(m, g.width \div 2, g.height \div 2, ".")
       ELSE RemoveOthers(g, m, MaxByLen(components))

CavernSeed ==
    /\ pc = "constructed"
    /\ gen.kind = "cavern"
    /\ \E draws \in [SeedCells(gen.width, gen.height) -> Draws] :
         game_map' = RandomSeed(gen, NewMap(gen.width, gen.height), draws)
    /\ passes' = 0
    /\ pc' = "smoothing"
    /\ UNCHANGED <<gen, stack, visited, call, ret, start_xy, queue, popped>>

CavernSmooth ==
    /\ pc = "smoothing"
    /\ passes < gen.smoothing_iterations
    /\ game_map' = Smooth(gen, game_map)
    /\ passes' = passes + 1
    /\ UNCHANGED <<gen, pc, stack, visited, call, ret, start_xy, queue, popped>>

CavernEnsureConnectivity ==
    /\ pc = "smoothing"
    /\ passes >= gen.smoothing_iterations
    /\ game_map' = ensure_connectivity(gen, game_map)
    /\ visited' = ComponentsVisited(gen, game_map)
    /\ pc' = "returned"
    /\ UNCHANGED <<gen, passes, stack, call, ret, start_xy, queue, popped>>

(***************************************************************************)
(* Generation: a generator is constructed and generate() runs once.        *)
(***************************************************************************)
\* The constructor call: call keeps the width and height it was given.
ConstructorCall(name, w, h) == [NoCall EXCEPT !.op = name, !.x = w, !.y = h]

InitGen ==
    /\ \/ \E w \in 1 .. MaxDungeonWidth, h \in 1 .. MaxDungeonHeight :
            /\ gen = NewDungeonGenerator(w, h)
            /\ call = ConstructorCall("DungeonGenerator", w, h)
       \/ \E d \in {e \in (1 .. MaxCavernWidth) \X (1 .. MaxCavernHeight) :
                      e[1] * e[2] <= MaxCavernCells},
             p \in WallProbabilities, n \in 0 .. MaxSmoothing :
            /\ gen = NewCavernGenerator(d[1], d[2], p, n)
            /\ call = ConstructorCall("CavernGenerator", d[1], d[2])
    /\ game_map = NewMap(0, 0)
    /\ pc = "constructed"
    /\ start_xy = <<>>
    /\ stack = <<>>
    /\ visited = {}
    /\ passes = 0
    /\ queue = <<>>
    /\ popped = <<>>
    /\ ret = NoRet

NextGen ==
    \/ DungeonBeginRaises
    \/ DungeonBegin
    \/ DungeonCarve
    \/ DungeonBacktrack
    \/ DungeonReturn
    \/ CavernSeed
    \/ CavernSmooth
    \/ CavernEnsureConnectivity

SpecGen == InitGen /\ [][NextGen]_vars

\* DungeonGenerator.generate() is one sequential call: it keeps executing
\* its next statement, so a possible step of it is eventually taken.
DungeonGenerate ==
    \/ DungeonBeginRaises
    \/ DungeonBegin
    \/ DungeonCarve
    \/ DungeonBacktrack
    \/ DungeonReturn

SpecGenFair == SpecGen /\ WF_vars(DungeonGenerate)

(***************************************************************************)
(* ai_director.py                                                          *)
(***************************************************************************)
PathDirectionsNoLeft == <<<<0, 1>>, <<0, -1>>, <<1, 0>>>>

PathDirections == <<<<0, 1>>, <<0, -1>>, <<1, 0>>, <<-1, 0>>>>

\* The guard of calculate_shortest_path: -1 unless both endpoints are floor.
PathGuardEndOnly(m, start_x, start_y, end_x, end_y) ==
    ~is_floor(m, end_x, end_y)

PathGuard(m, start_x, start_y, end_x, end_y) ==
    ~is_floor(m, start_x, start_y) \/ ~is_floor(m, end_x, end_y)

\* The loop without its "not in visited" test.
RECURSIVE PathExpandNoVisited(_, _, _, _, _, _)
PathExpandNoVisited(m, x, y, dist, i, s) ==
    IF i > Len(PathDirections) THEN s
    ELSE LET nx == x + PathDirections[i][1]
             ny == y + PathDirections[i][2]
         IN IF in_bounds(m, nx, ny) /\ is_floor(m, nx, ny)
            THEN PathExpandNoVisited(m, x, y, dist, i + 1,
                    [queue |-> Append(s.queue, <<nx, ny, dist + 1>>),
                     visited |-> s.visited \cup {<<nx, ny>>}])
            ELSE PathExpandNoVisited(m, x, y, dist, i + 1, s)

\* The "for dx, dy in directions" loop of calculate_shortest_path from
\* direction i on, for the dequeued (x, y, dist); s = [queue, visited].
RECURSIVE PathExpand(_, _, _, _, _, _)
PathExpand(m, x, y, dist, i, s) ==
    IF i > Len(PathDirections) THEN s
    ELSE LET nx == x + PathDirections[i][1]
             ny == y + PathDirections[i][2]
         IN IF in_bounds(m, nx, ny) /\ is_floor(m, nx, ny)
               /\ <<nx, ny>> \notin s.visited
            THEN PathExpand(m, x, y, dist, i + 1,
                    [queue |-> Append(s.queue, <<nx, ny, dist + 1>>),
                     visited |-> s.visited \cup {<<nx, ny>>}])
            ELSE PathExpand(m, x, y, dist, i + 1, s)

\* The "while queue" loop of calculate_shortest_path.
RECURSIVE PathLoop(_, _, _, _)
PathLoop(m, end_x, end_y, s) ==
    IF s.queue = <<>> THEN -1
    ELSE LET cur == Head(s.queue)
         IN IF cur[1] = end_x /\ cur[2] = end_y
            THEN cur[3]
            ELSE PathLoop(m, end_x, end_y,
                    PathExpand(m, cur[1], cur[2], cur[3], 1,
                               [s EXCEPT !.queue = Tail(s.queue)]))

calculate_shortest_path(m, start_x, start_y, end_x, end_y) ==
    IF PathGuard(m, start_x, start_y, end_x, end_y)
    THEN -1
    ELSE PathLoop(m, end_x, end_y,
                  [queue |-> <<<<start_x, start_y, 0>>>>,
                   visited |-> {<<start_x, start_y>>}])

ExitDirections == <<<<0, 1>>, <<0, -1>>, <<1, 0>>, <<-1, 0>>>>

\* The keys of the visited dict, kept as a sequence of <<x, y, dist>> in
\* insertion order.
VisitedKeys(items) == {<<items[i][1], items[i][2]>> : i \in 1 .. Len(items)}

\* The "for dx, dy in directions" loop of find_strategic_exit_position;
\* s = [queue, visited].
RECURSIVE ExitExpand(_, _, _, _, _, _)
ExitExpand(m, x, y, dist, i, s) ==
    IF i > Len(ExitDirections) THEN s
    ELSE LET nx == x + ExitDirections[i][1]
             ny == y + ExitDirections[i][2]
         IN IF in_bounds(m, nx, ny) /\ is_floor(m, nx, ny)
               /\ <<nx, ny>> \notin VisitedKeys(s.visited)
            THEN ExitExpand(m, x, y, dist, i + 1,
                    [queue |-> Append(s.queue, <<nx, ny, dist + 1>>),
                     visited |-> Append(s.visited, <<nx, ny, dist + 1>>)])
            ELSE ExitExpand(m, x, y, dist, i + 1, s)

\* The "while queue" loop of find_strategic_exit_position: the visited dict.
RECURSIVE ExitLoop(_, _)
ExitLoop(m, s) ==
    IF s.queue = <<>> THEN s.visited
    ELSE LET cur == Head(s.queue)
         IN ExitLoop(m, ExitExpand(m, cur[1], cur[2], cur[3], 1,
                                   [s EXCEPT !.queue = Tail(s.queue)]))

ExitDistanceMap(m, player_x, player_y) ==
    ExitLoop(m, [queue |-> <<<<player_x, player_y, 0>>>>,
                 visited |-> <<<<player_x, player_y, 0>>>>])

\* far_tiles: the visited tiles at least min_distance away.
FarTiles(items, min_distance) ==
    {<<items[i][1], items[i][2]>> :
        i \in {j \in 1 .. Len(items) : items[j][3] >= min_distance}}

\* max(visited.items(), key=lambda item: item[1])[0]: the first inserted of
\* the tiles of maximal distance.
FarthestMin(items) ==
    LET best == CHOOSE i \in 1 .. Len(items) :
                  /\ \A j \in 1 .. Len(items) : items[j][3] >= items[i][3]
                  /\ \A j \in 1 .. (i - 1) : items[j][3] > items[i][3]
    IN <<items[best][1], items[best][2]>>

Farthest(items) ==
    LET best == CHOOSE i \in 1 .. Len(items) :
                  /\ \A j \in 1 .. Len(items) : items[j][3] <= items[i][3]
                  /\ \A j \in 1 .. (i - 1) : items[j][3] < items[i][3]
    IN <<items[best][1], items[best][2]>>

\* Every value find_strategic_exit_position can return (random.choice picks
\* any far tile).
find_strategic_exit_position(m, player_x, player_y, min_distance) ==
    LET items == ExitDistanceMap(m, player_x, player_y)
        far_tiles == FarTiles(items, min_distance)
    IN IF far_tiles = {}
       THEN (IF items # <<>> THEN {Farthest(items)} ELSE {<<>>})
       ELSE far_tiles

(***************************************************************************)
(* Python floats (IEEE 754 doubles, round to nearest, ties to even).  A    *)
(* positive float is [mantissa, exponent]: mantissa is the 53 bits of its  *)
(* significand, most significant first and starting with 1, and the value  *)
(* is the integer these bits spell times 2^exponent.  0.0 has the empty    *)
(* mantissa.  The arithmetic works on the significand as 5 limbs           *)
(* <<1, l1, l2, l3, l4>>, the leading bit and 4 limbs of 13 bits.          *)
(***************************************************************************)
FloatZero == [mantissa |-> <<>>, exponent |-> 0]

\* 2^k for 0 <= k <= 30.
Pow2(k) ==
    <<1, 2, 4, 8, 16, 32, 64, 128, 256, 512, 1024, 2048, 4096, 8192, 16384,
      32768, 65536, 131072, 262144, 524288, 1048576, 2097152, 4194304,
      8388608, 16777216, 33554432, 67108864, 134217728, 268435456,
      536870912, 1073741824>>[k + 1]

\* The 53 bits of the limbs.
LimbsToBits(limbs) ==
    [i \in 1 .. 53 |->
        IF i = 1 THEN limbs[1]
        ELSE (limbs[2 + ((i - 2) \div 13)]
                 \div Pow2(12 - ((i - 2) % 13))) % 2]

\* The number bits[from .. to] spell.
RECURSIVE BitsValue(_, _, _)
BitsValue(bits, from, to) ==
    IF from > to THEN 0
    ELSE 2 * BitsValue(bits, from, to - 1) + bits[to]

\* The limbs of 53 bits.
BitsToLimbs(bits) ==
    <<bits[1], BitsValue(bits, 2, 14), BitsValue(bits, 15, 27),
      BitsValue(bits, 28, 40), BitsValue(bits, 41, 53)>>

\* limbs + 1 from limb i down to the leading one, which becomes 2 when
\* every bit was 1.
RECURSIVE LimbsIncrement(_, _)
LimbsIncrement(limbs, i) ==
    IF i = 1 THEN [limbs EXCEPT ![1] = limbs[1] + 1]
    ELSE IF limbs[i] + 1 < 8192
         THEN [limbs EXCEPT ![i] = limbs[i] + 1]
         ELSE LimbsIncrement([limbs EXCEPT ![i] = 0], i - 1)

\* The float of limbs * 2^e + (a part below one unit of limbs): round_bit
\* is the first bit below, sticky tells whether anything lies below that.
\* A tie goes to the even significand.
FloatRound(limbs, e, round_bit, sticky) ==
    IF round_bit = 1 /\ (sticky \/ limbs[5] % 2 = 1)
    THEN LET up == LimbsIncrement(limbs, 5)
         IN IF up[1] = 2
            THEN [mantissa |-> LimbsToBits(<<1, 0, 0, 0, 0>>),
                  exponent |-> e + 1]
            ELSE [mantissa |-> LimbsToBits(up), exponent |-> e]
    ELSE [mantissa |-> LimbsToBits(limbs), exponent |-> e]

\* a / b for integers 0 <= a < 8192 and 0 < b < 8192: the float nearest
\* the quotient.  n / d is the quotient scaled into [1, 2); the limbs come
\* from the long division of n by d, 13 bits at a time.
FloatDiv(a, b) ==
    IF a = 0 THEN FloatZero
    ELSE LET j == CHOOSE k \in (0 - 17) .. 17 :
                    IF k < 0
                    THEN b <= a * Pow2(0 - k) /\ a * Pow2(0 - k) < 2 * b
                    ELSE b * Pow2(k) <= a /\ a < b * Pow2(k + 1)
             n == IF j < 0 THEN a * Pow2(0 - j) ELSE a
             d == IF j < 0 THEN b ELSE b * Pow2(j)
             r0 == n - d
             l1 == (r0 * 8192) \div d
             r1 == (r0 * 8192) % d
             l2 == (r1 * 8192) \div d
             r2 == (r1 * 8192) % d
             l3 == (r2 * 8192) \div d
             r3 == (r2 * 8192) % d
             l4 == (r3 * 8192) \div d
             r4 == (r3 * 8192) % d
         IN FloatRound(<<1, l1, l2, l3, l4>>, j - 52,
                       (2 * r4) \div d, (2 * r4) % d # 0)

\* f * k for an integer 0 < k < 4096: the float nearest the product.  The
\* limbs are multiplied from the last with carries, and the product is
\* shifted right by the s bits it has gained.
FloatTimes(f, k) ==
    IF f.mantissa = <<>> THEN FloatZero
    ELSE LET limbs == BitsToLimbs(f.mantissa)
             t4 == limbs[5] * k
             t3 == limbs[4] * k + (t4 \div 8192)
             t2 == limbs[3] * k + (t3 \div 8192)
             t1 == limbs[2] * k + (t2 \div 8192)
             t0 == limbs[1] * k + (t1 \div 8192)
             p1 == t1 % 8192
             p2 == t2 % 8192
             p3 == t3 % 8192
             p4 == t4 % 8192
             s == CHOOSE i \in 0 .. 12 : Pow2(i) <= t0 /\ t0 < Pow2(i + 1)
             low == Pow2(s)
             high == Pow2(13 - s)
             shifted == <<1,
                          (t0 % low) * high + (p1 \div low),
                          (p1 % low) * high + (p2 \div low),
                          (p2 % low) * high + (p3 \div low),
                          (p3 % low) * high + (p4 \div low)>>
             dropped == p4 % low
         IN IF s = 0
            THEN [mantissa |-> LimbsToBits(shifted), exponent |-> f.exponent]
            ELSE FloatRound(shifted, f.exponent + s,
                            dropped \div Pow2(s - 1),
                            dropped % Pow2(s - 1) # 0)

\* calculate_openness_score: (floor_count / total_tiles) * 100 as the float
\* the two roundings give, 0.0 for a map without tiles.
calculate_openness_score(m) ==
    LET floor_count == Len(get_all_floor_tiles(m))
        total_tiles == m.width * m.height
    IN IF total_tiles = 0
       THEN FloatZero
       ELSE FloatTimes(FloatDiv(floor_count, total_tiles), 100)

(***************************************************************************)
(* Calls on a Map.                                                         *)
(***************************************************************************)
\* Coordinates passed to a map of width w and height h: every cell and the
\* positions one step outside.
Coordinates(m) == ((0 - 1) .. m.width) \X ((0 - 1) .. m.height)

SetCell ==
    /\ pc = "map"
    /\ \E c \in Coordinates(game_map), char \in Chars :
         /\ game_map' = set_cell(game_map, c[1], c[2], char)
         /\ call' = [NoCall EXCEPT !.op = "set_cell", !.x = c[1], !.y = c[2],
                                   !.char = char]
    /\ ret' = NoRet
    /\ UNCHANGED <<gen, pc, stack, visited, passes, start_xy, queue, popped>>

GetCell ==
    /\ pc = "map"
    /\ \E c \in Coordinates(game_map) :
         /\ ret' = [NoRet EXCEPT !.cell = get_cell(game_map, c[1], c[2])]
         /\ call' = [NoCall EXCEPT !.op = "get_cell", !.x = c[1], !.y = c[2]]
    /\ UNCHANGED <<game_map, gen, pc, stack, visited, passes, start_xy, queue, popped>>

IsFloor ==
    /\ pc = "map"
    /\ \E c \in Coordinates(game_map) :
         /\ ret' = [NoRet EXCEPT !.flag = is_floor(game_map, c[1], c[2])]
         /\ call' = [NoCall EXCEPT !.op = "is_floor", !.x = c[1], !.y = c[2]]
    /\ UNCHANGED <<game_map, gen, pc, stack, visited, passes, start_xy, queue, popped>>

NoGenerator == [kind |-> "none", width |-> 0, height |-> 0]

InitMap ==
    /\ \E w \in 1 .. MaxMapWidth, h \in 1 .. MaxMapHeight :
         game_map = NewMap(w, h)
    /\ gen = NoGenerator
    /\ pc = "map"
    /\ start_xy = <<>>
    /\ stack = <<>>
    /\ visited = {}
    /\ passes = 0
    /\ queue = <<>>
    /\ popped = <<>>
    /\ call = NoCall
    /\ ret = NoRet

NextMap ==
    \/ SetCell
    \/ GetCell
    \/ IsFloor

SpecMap == InitMap /\ [][NextMap]_vars

(***************************************************************************)
(* Calls on an AIDirector constructed over a map.                          *)
(***************************************************************************)
\* Every map of at most MaxGridCells cells that Map(w, h) and set_cell build.
AllMaps ==
    UNION {[width : {d[1]}, height : {d[2]}, grid : [Cells(d[1], d[2]) -> Chars]] :
            d \in {e \in (1 .. MaxGridWidth) \X (1 .. MaxGridHeight) :
                      e[1] * e[2] <= MaxGridCells}}

CalculateShortestPath ==
    /\ pc = "director"
    /\ \E s \in Coordinates(game_map), e \in Coordinates(game_map) :
         /\ ret' = [NoRet EXCEPT !.path =
                      calculate_shortest_path(game_map, s[1], s[2], e[1], e[2])]
         /\ call' = [NoCall EXCEPT !.op = "calculate_shortest_path",
                                   !.x = s[1], !.y = s[2],
                                   !.end_x = e[1], !.end_y = e[2]]
    /\ pc' = "done"
    /\ UNCHANGED <<game_map, gen, stack, visited, passes, start_xy, queue, popped>>

FindStrategicExitPosition ==
    /\ pc = "director"
    /\ \E p \in Coordinates(game_map), d \in 0 .. MaxMinDistance :
         /\ \E r \in find_strategic_exit_position(game_map, p[1], p[2], d) :
              ret' = [NoRet EXCEPT !.exit = r]
         /\ call' = [NoCall EXCEPT !.op = "find_strategic_exit_position",
                                   !.x = p[1], !.y = p[2], !.min_distance = d]
    /\ pc' = "done"
    /\ UNCHANGED <<game_map, gen, stack, visited, passes, start_xy, queue, popped>>

InitDirector ==
    /\ game_map \in AllMaps
    /\ gen = NoGenerator
    /\ pc = "director"
    /\ start_xy = <<>>
    /\ stack = <<>>
    /\ visited = {}
    /\ passes = 0
    /\ queue = <<>>
    /\ popped = <<>>
    /\ call = NoCall
    /\ ret = NoRet

NextDirector ==
    \/ CalculateShortestPath
    \/ FindStrategicExitPosition

SpecDirector == InitDirector /\ [][NextDirector]_vars

(***************************************************************************)
(* calculate_shortest_path statement by statement: queue and visited are    *)
(* its locals, popped is the (x, y, dist) of the last queue.popleft().     *)
(***************************************************************************)
PathMaps ==
    UNION {[width : {d[1]}, height : {d[2]}, grid : [Cells(d[1], d[2]) -> Chars]] :
            d \in {e \in (1 .. MaxPathWidth) \X (1 .. MaxPathHeight) :
                      e[1] * e[2] <= MaxPathCells}}

\* The guard returns -1 before any queue exists.
PathGuardReturns ==
    /\ pc = "called"
    /\ PathGuard(game_map, call.x, call.y, call.end_x, call.end_y)
    /\ ret' = [NoRet EXCEPT !.path = -1]
    /\ pc' = "done"
    /\ UNCHANGED <<game_map, gen, stack, visited, passes, start_xy, queue,
                   popped, call>>

\* visited, queue and the start's visited.add.
PathBegin ==
    /\ pc = "called"
    /\ ~PathGuard(game_map, call.x, call.y, call.end_x, call.end_y)
    /\ queue' = <<<<call.x, call.y, 0>>>>
    /\ visited' = {<<call.x, call.y>>}
    /\ pc' = "bfs"
    /\ UNCHANGED <<game_map, gen, stack, passes, start_xy, popped, call, ret>>

\* An iteration that dequeues the end cell and returns its distance.
PathDequeueEnd ==
    /\ pc = "bfs"
    /\ queue # <<>>
    /\ Head(queue)[1] = call.end_x /\ Head(queue)[2] = call.end_y
    /\ popped' = Head(queue)
    /\ queue' = Tail(queue)
    /\ ret' = [NoRet EXCEPT !.path = Head(queue)[3]]
    /\ pc' = "done"
    /\ UNCHANGED <<game_map, gen, stack, visited, passes, start_xy, call>>

\* An iteration that dequeues another cell and enqueues its unvisited
\* floor neighbours.
PathDequeueExpand ==
    /\ pc = "bfs"
    /\ queue # <<>>
    /\ ~(Head(queue)[1] = call.end_x /\ Head(queue)[2] = call.end_y)
    /\ LET cur == Head(queue)
           s == PathExpand(game_map, cur[1], cur[2], cur[3], 1,
                           [queue |-> Tail(queue), visited |-> visited])
       IN /\ popped' = cur
          /\ queue' = s.queue
          /\ visited' = s.visited
    /\ UNCHANGED <<game_map, gen, pc, stack, passes, start_xy, call, ret>>

\* The queue ran empty: no path found.
PathExhausted ==
    /\ pc = "bfs"
    /\ queue = <<>>
    /\ ret' = [NoRet EXCEPT !.path = -1]
    /\ pc' = "done"
    /\ UNCHANGED <<game_map, gen, stack, visited, passes, start_xy, queue,
                   popped, call>>

InitPath ==
    /\ game_map \in PathMaps
    /\ gen = NoGenerator
    /\ \E s \in Coordinates(game_map), e \in Coordinates(game_map) :
         call = [NoCall EXCEPT !.op = "calculate_shortest_path",
                               !.x = s[1], !.y = s[2],
                               !.end_x = e[1], !.end_y = e[2]]
    /\ pc = "called"
    /\ start_xy = <<>>
    /\ stack = <<>>
    /\ visited = {}
    /\ passes = 0
    /\ queue = <<>>
    /\ popped = <<>>
    /\ ret = NoRet

NextPath ==
    \/ PathGuardReturns
    \/ PathBegin
    \/ PathDequeueEnd
    \/ PathDequeueExpand
    \/ PathExhausted

SpecPath == InitPath /\ [][NextPath]_vars

(***************************************************************************)
(* Reference definitions the properties are stated with.  They are written *)
(* from the glossary (4-directional adjacency, connected component), not   *)
(* from the breadth-first searches above.                                  *)
(***************************************************************************)
FloorCells(m) == {c \in DOMAIN m.grid : m.grid[c] = "."}

Adjacent(a, b) ==
    \/ a[1] = b[1] /\ (a[2] = b[2] + 1 \/ b[2] = a[2] + 1)
    \/ a[2] = b[2] /\ (a[1] = b[1] + 1 \/ b[1] = a[1] + 1)

\* The floor cells next to a position of S.
FloorNeighbours(m, S) ==
    {c \in FloorCells(m) : \E s \in S : Adjacent(c, s)}

\* S and every floor cell that floor steps from S lead to.
RECURSIVE FloorClosure(_, _)
FloorClosure(m, S) ==
    LET next == S \cup FloorNeighbours(m, S)
    IN IF next = S THEN S ELSE FloorClosure(m, next)

\* A 4-directional floor path joins p and q.
Connected(m, p, q) ==
    /\ p \in FloorCells(m)
    /\ q \in FloorCells(m)
    /\ q \in FloorClosure(m, {p})

\* The least number of floor steps from a position of ball to q, counted
\* from k; -1 when there is none.
RECURSIVE StepsFrom(_, _, _, _)
StepsFrom(m, ball, q, k) ==
    IF q \in ball THEN k
    ELSE LET next == ball \cup FloorNeighbours(m, ball)
         IN IF next = ball THEN -1 ELSE StepsFrom(m, next, q, k + 1)

\* The floor-to-floor adjacencies, each as the set of its two cells.
FloorEdges(m) ==
    {{p[1], p[2]} :
        p \in {q \in FloorCells(m) \X FloorCells(m) : Adjacent(q[1], q[2])}}

IsBorder(m, c) ==
    \/ c[1] = 0 \/ c[1] = m.width - 1
    \/ c[2] = 0 \/ c[2] = m.height - 1

OutOfBounds(m, x, y) == x < 0 \/ x >= m.width \/ y < 0 \/ y >= m.height

AbsDiff(a, b) == IF a >= b THEN a - b ELSE b - a

(***************************************************************************)
(* Generated grids.                                                        *)
(***************************************************************************)
\* C1: every grid returned by DungeonGenerator.generate or by
\* CavernGenerator.generate has exactly one connected component of floor
\* cells under 4-directional adjacency.
C1_OneComponent ==
    pc = "returned" =>
        \E c \in FloorCells(game_map) :
            FloorClosure(game_map, {c}) = FloorCells(game_map)

\* A cavern was returned that keeps several floor cells next to interior
\* walls, after at least one smoothing pass.
C1_Witness ==
    /\ pc = "returned"
    /\ gen.kind = "cavern"
    /\ passes >= 1
    /\ Cardinality(FloorCells(game_map)) >= 3
    /\ \E c \in (1 .. (gen.width - 2)) \X (1 .. (gen.height - 2)) :
          game_map.grid[c] = "#"

\* C2: in every grid returned by DungeonGenerator.generate the floor cells
\* with their floor-to-floor adjacencies form a tree: the number of edges is
\* the number of floor cells minus one.
C2_DungeonIsTree ==
    (pc = "returned" /\ gen.kind = "dungeon") =>
        Cardinality(FloorEdges(game_map)) =
            Cardinality(FloorCells(game_map)) - 1

\* A dungeon was returned in which the four odd cells around (2, 2), which
\* could close a cycle, are all floor.
C2_Witness ==
    /\ pc = "returned"
    /\ gen.kind = "dungeon"
    /\ {<<1, 1>>, <<3, 1>>, <<1, 3>>, <<3, 3>>} \subseteq FloorCells(game_map)

\* C10 as stated: in every grid returned by CavernGenerator.generate with
\* width, height >= 1, every border cell is wall and floor lies only in
\* [1, width-2] x [1, height-2].
C10_Original ==
    (pc = "returned" /\ gen.kind = "cavern"
        /\ gen.width >= 1 /\ gen.height >= 1) =>
        /\ \A c \in DOMAIN game_map.grid :
              IsBorder(game_map, c) => game_map.grid[c] = "#"
        /\ FloorCells(game_map) \subseteq
              (1 .. (gen.width - 2)) \X (1 .. (gen.height - 2))

\* C10 amended: in every grid returned by CavernGenerator.generate with
\* width, height >= 3, every border cell is wall and floor lies only in
\* [1, width-2] x [1, height-2].
C10_BordersStayWall ==
    (pc = "returned" /\ gen.kind = "cavern"
        /\ gen.width >= 3 /\ gen.height >= 3) =>
        /\ \A c \in DOMAIN game_map.grid :
              IsBorder(game_map, c) => game_map.grid[c] = "#"
        /\ FloorCells(game_map) \subseteq
              (1 .. (gen.width - 2)) \X (1 .. (gen.height - 2))

\* A cavern of at least 3 x 3 was returned with floor right next to the
\* border on two sides.
C10_Witness ==
    /\ pc = "returned"
    /\ gen.kind = "cavern"
    /\ gen.width >= 3 /\ gen.height >= 3
    /\ game_map.grid[<<1, 1>>] = "."
    /\ Cardinality(FloorCells(game_map)) >= 2

\* C11: with wall_probability = 1.0 the cavern has no floor cell after
\* seeding and after every smoothing pass, and the returned grid has the
\* centre (width // 2, height // 2) as its only floor cell, so that the
\* openness score is 100 / (width * height).
C11_AllWallFallsBackToCentre ==
    (gen.kind = "cavern" /\ gen.wall_probability = 100) =>
        /\ pc = "smoothing" => FloorCells(game_map) = {}
        /\ pc = "returned" =>
              /\ FloorCells(game_map) =
                    {<<gen.width \div 2, gen.height \div 2>>}
              /\ calculate_openness_score(game_map) =
                    FloatDiv(100, gen.width * gen.height)

\* C12: the dungeon generator's effective width and height are the
\* constructor's arguments when those are odd and the arguments plus one
\* when they are even, so both are odd; the DFS start has both components
\* odd, with x in [1, width - 2] and y in [1, height - 2] of the effective
\* dimensions.
C12_OddDimensionsOddStart ==
    gen.kind = "dungeon" =>
        /\ gen.width = (IF call.x % 2 = 0 THEN call.x + 1 ELSE call.x)
        /\ gen.height = (IF call.y % 2 = 0 THEN call.y + 1 ELSE call.y)
        /\ gen.width % 2 = 1 /\ gen.height % 2 = 1
        /\ start_xy # <<>> =>
              /\ start_xy[1] % 2 = 1 /\ start_xy[2] % 2 = 1
              /\ 1 <= start_xy[1] /\ start_xy[1] <= gen.width - 2
              /\ 1 <= start_xy[2] /\ start_xy[2] <= gen.height - 2

\* A dungeon constructed with even arguments has started its DFS at the
\* last odd column.
C12_Witness ==
    /\ gen.kind = "dungeon"
    /\ call.x % 2 = 0 /\ call.y % 2 = 0
    /\ call.x >= 4
    /\ start_xy # <<>>
    /\ start_xy[1] = gen.width - 2

\* C13: for every width, height >= 1 neither generator raises an error,
\* and every returned grid has at least one Floor cell.
C13_NoFatalError ==
    /\ pc # "raised"
    /\ pc = "returned" => FloorCells(game_map) # {}

OddCells(m) == {c \in Cells(m.width, m.height) : c[1] % 2 = 1 /\ c[2] % 2 = 1}

\* C14: DungeonGenerator.generate terminates whatever the grid size and
\* the random choices are: a call ends (by returning, or with randrange's
\* error when there is no start to draw), the stack of a DFS that has
\* started eventually becomes empty, and whenever the stack is empty every
\* cell of the grid with both coordinates odd has been visited and is
\* Floor.
C14_DfsTerminates ==
    /\ [](  (gen.kind = "dungeon" /\ pc \in {"dfs", "returned"}
                /\ stack = <<>>)
          => \A c \in OddCells(game_map) :
                c \in visited /\ is_floor(game_map, c[1], c[2]))
    /\ (gen.kind = "dungeon" /\ pc = "constructed")
          ~> (pc \in {"raised", "returned"})
    /\ (gen.kind = "dungeon" /\ pc = "dfs")
          ~> (gen.kind = "dungeon" /\ stack = <<>> /\ pc = "returned")

\* A dungeon of at least 5 x 5 was returned with an empty stack after
\* visiting at least 4 cells.
C14_Witness ==
    /\ gen.kind = "dungeon"
    /\ pc = "returned"
    /\ stack = <<>>
    /\ gen.width >= 5 /\ gen.height >= 5
    /\ Cardinality(visited) >= 4

\* C15 as stated: at every step of dungeon generation a cell is in the
\* visited set if and only if it is Floor.
C15_Original ==
    (gen.kind = "dungeon" /\ pc \in {"dfs", "returned"}) =>
        visited = FloorCells(game_map)

\* C15 amended: at every step of dungeon generation every visited cell is
\* Floor, and a cell with both coordinates odd is visited if and only if
\* it is Floor; the Floor cells that are not visited are carved midpoints,
\* which have one even coordinate.
C15_VisitedIffFloorOddCell ==
    (gen.kind = "dungeon" /\ pc \in {"dfs", "returned"}) =>
        /\ \A c \in visited :
              c \in DOMAIN game_map.grid /\ game_map.grid[c] = "."
        /\ \A c \in OddCells(game_map) :
              c \in visited <=> game_map.grid[c] = "."
        /\ \A c \in DOMAIN game_map.grid :
              (game_map.grid[c] = "." /\ c \notin visited) =>
                  (c[1] % 2 = 0) # (c[2] % 2 = 0)

\* The DFS is running, has visited at least 3 cells and has carved a
\* midpoint that is not in the visited set.
C15_Witness ==
    /\ gen.kind = "dungeon"
    /\ pc = "dfs"
    /\ Cardinality(visited) >= 3
    /\ FloorCells(game_map) \ visited # {}

\* C16: in every carving step of the dungeon DFS the chosen neighbour and
\* the midpoint between it and the current cell are both Wall when they
\* are chosen, and the step turns exactly these two cells into Floor: no
\* already-carved cell is chosen or carved again.
C16_CandidatesAreStillWall ==
    [][ (gen.kind = "dungeon" /\ pc = "dfs" /\ Len(stack') = Len(stack) + 1)
        => LET cur == stack[Len(stack)]
               chosen == stack'[Len(stack')]
               mid == <<(cur[1] + chosen[1]) \div 2,
                        (cur[2] + chosen[2]) \div 2>>
           IN /\ game_map.grid[chosen] = "#"
              /\ game_map.grid[mid] = "#"
              /\ chosen # mid
              /\ FloorCells(game_map') =
                    FloorCells(game_map) \cup {chosen, mid}
       ]_vars

\* The DFS has carved to the cell on top of its stack after it backtracked
\* from another branch, so Floor cells lie two steps away from cells it
\* has visited.
C16_Witness ==
    /\ gen.kind = "dungeon"
    /\ pc = "dfs"
    /\ Len(stack) >= 3
    /\ Cardinality(visited) >= Len(stack) + 2
    /\ \E d \in DungeonDirections :
          LET n == <<stack[Len(stack)][1] + d[1], stack[Len(stack)][2] + d[2]>>
          IN /\ n \in visited
             /\ n # stack[Len(stack) - 1]

\* The position of a cell in the row-major scan.
ScanRank(m, c) == c[2] * m.width + c[1]

\* The scan position of the first cell of a set of cells.
FirstRank(m, S) ==
    CHOOSE r \in {ScanRank(m, c) : c \in S} :
        \A c \in S : r <= ScanRank(m, c)

\* The floor component with the most cells; among equally large ones the
\* one whose first cell comes first in the scan.
KeptComponent(m) ==
    LET all == {FloorClosure(m, {c}) : c \in FloorCells(m)}
    IN CHOOSE K \in all :
         \A L \in all :
            \/ Cardinality(L) < Cardinality(K)
            \/ Cardinality(L) = Cardinality(K)
                   /\ FirstRank(m, K) <= FirstRank(m, L)

\* The grid of m with exactly the cells of F as floor.
WithFloor(m, F) ==
    [m EXCEPT !.grid = [c \in DOMAIN m.grid |->
                           IF c \in F THEN "." ELSE "#"]]

\* C17: connectivity repair of a grid with at least one Floor cell keeps
\* exactly the largest Floor component, the first in row-major scan order
\* among equally large ones: its cells stay Floor, every other Floor cell
\* becomes Wall and every Wall cell stays Wall.
C17_KeepsFirstLargestComponent ==
    [][ (gen.kind = "cavern" /\ pc = "smoothing" /\ pc' = "returned"
            /\ FloorCells(game_map) # {})
        => /\ FloorCells(game_map') = KeptComponent(game_map)
           /\ DOMAIN game_map'.grid = DOMAIN game_map.grid
           /\ \A c \in DOMAIN game_map.grid :
                 game_map.grid[c] = "#" => game_map'.grid[c] = "#"
       ]_vars

\* A cavern was returned after connectivity repair removed a component as
\* large as the one it kept.
C17_Witness ==
    /\ gen.kind = "cavern"
    /\ pc = "returned"
    /\ \E c \in visited \ FloorCells(game_map) :
          Cardinality(FloorClosure(WithFloor(game_map, visited), {c}))
             = Cardinality(FloorCells(game_map))

\* The number of Wall cells among the 8 neighbours of an interior cell.
WallsAround(m, c) ==
    Cardinality({n \in DOMAIN m.grid :
                    /\ n # c
                    /\ AbsDiff(n[1], c[1]) <= 1
                    /\ AbsDiff(n[2], c[2]) <= 1
                    /\ m.grid[n] = "#"})

\* C18: a smoothing pass gives every interior cell the value the rule
\* yields on the grid as it was before the pass (Wall with at most 4 Wall
\* neighbours becomes Floor, Floor with at least 5 becomes Wall, otherwise
\* unchanged) and leaves every border cell unchanged, so the result is a
\* function of the pre-pass grid alone, whatever the processing order.
C18_SmoothReadsSnapshot ==
    [][ (gen.kind = "cavern" /\ pc = "smoothing" /\ passes' = passes + 1)
        => /\ DOMAIN game_map'.grid = DOMAIN game_map.grid
           /\ \A c \in DOMAIN game_map.grid :
                 LET old == game_map.grid[c]
                     walls == WallsAround(game_map, c)
                 IN game_map'.grid[c] =
                      (IF IsBorder(game_map, c) THEN old
                       ELSE IF old = "#" /\ walls <= 4 THEN "."
                       ELSE IF old = "." /\ walls >= 5 THEN "#"
                       ELSE old)
       ]_vars

\* A cavern of at least 5 x 5 has had a smoothing pass that left Floor
\* cells and interior Wall cells.
C18_Witness ==
    /\ gen.kind = "cavern"
    /\ pc = "smoothing"
    /\ passes >= 1
    /\ gen.width >= 5 /\ gen.height >= 5
    /\ Cardinality(FloorCells(game_map)) >= 2
    /\ \E c \in DOMAIN game_map.grid :
          ~IsBorder(game_map, c) /\ game_map.grid[c] = "#"

\* The cell of a queue entry (x, y, dist).
EntryCell(e) == <<e[1], e[2]>>

\* C19: in every step of the BFS of calculate_shortest_path the cells put
\* on the queue were never enqueued before (they were not in visited), the
\* queue holds distinct visited cells whose distances are sorted and
\* differ by at most 1, cells are dequeued in non-decreasing order of
\* distance, every entry carries the true distance of its cell from the
\* start, and the distance returned when the end cell is dequeued is the
\* minimal one.
C19_BfsOrder ==
    [][ (call.op = "calculate_shortest_path" /\ pc \in {"called", "bfs"})
        => LET from == {<<call.x, call.y>>}
               enqueued == IF pc = "called" \/ queue = <<>> THEN queue'
                           ELSE SubSeq(queue', Len(queue), Len(queue'))
           IN /\ \A i \in DOMAIN enqueued :
                    EntryCell(enqueued[i]) \notin visited
              /\ \A i \in DOMAIN queue' :
                    /\ EntryCell(queue'[i]) \in visited'
                    /\ queue'[i][3] =
                          StepsFrom(game_map, from, EntryCell(queue'[i]), 0)
              /\ \A i \in DOMAIN queue', j \in DOMAIN queue' :
                    i < j => /\ EntryCell(queue'[i]) # EntryCell(queue'[j])
                             /\ queue'[i][3] <= queue'[j][3]
                             /\ queue'[j][3] <= queue'[i][3] + 1
              /\ (popped # <<>> /\ popped' # <<>>) => popped[3] <= popped'[3]
              /\ popped' # <<>> =>
                    \A i \in DOMAIN queue' :
                       /\ popped'[3] <= queue'[i][3]
                       /\ queue'[i][3] <= popped'[3] + 1
              /\ (pc = "bfs" /\ queue # <<>> /\ pc' = "done") =>
                    /\ EntryCell(popped') = <<call.end_x, call.end_y>>
                    /\ ret'.path = popped'[3]
                    /\ ret'.path = StepsFrom(game_map, from,
                                             <<call.end_x, call.end_y>>, 0)
       ]_vars

\* The BFS has dequeued a cell at distance 1 or more, has visited at least
\* 5 cells and its queue holds two different distances.
C19_Witness ==
    /\ call.op = "calculate_shortest_path"
    /\ pc = "bfs"
    /\ popped # <<>>
    /\ Len(queue) >= 2
    /\ Cardinality(visited) >= 5
    /\ popped[3] >= 1
    /\ queue[1][3] # queue[Len(queue)][3]

\* C20: at every step of the dungeon DFS loop the stack holds pairwise
\* distinct visited cells, its bottom element is the start cell, and two
\* consecutive entries are exactly 2 apart along one axis with the cell
\* between them Floor.
C20_StackIsSimplePath ==
    (gen.kind = "dungeon" /\ pc = "dfs") =>
        /\ \A i \in DOMAIN stack : stack[i] \in visited
        /\ \A i \in DOMAIN stack, j \in DOMAIN stack :
              i # j => stack[i] # stack[j]
        /\ stack # <<>> => stack[1] = start_xy
        /\ \A i \in 1 .. (Len(stack) - 1) :
              LET a == stack[i]
                  b == stack[i + 1]
                  mid == <<(a[1] + b[1]) \div 2, (a[2] + b[2]) \div 2>>
              IN /\ \/ a[1] = b[1] /\ AbsDiff(a[2], b[2]) = 2
                    \/ a[2] = b[2] /\ AbsDiff(a[1], b[1]) = 2
                 /\ game_map.grid[mid] = "."

\* The DFS has backtracked and its stack is a path of at least 4 cells
\* that turns a corner.
C20_Witness ==
    /\ gen.kind = "dungeon"
    /\ pc = "dfs"
    /\ Len(stack) >= 4
    /\ Cardinality(visited) > Len(stack)
    /\ stack[1][1] # stack[Len(stack)][1]
    /\ stack[1][2] # stack[Len(stack)][2]

\* C21: at every step of dungeon generation and in the returned grid,
\* every border cell and every cell with both coordinates even is Wall; a
\* Floor cell has both coordinates odd, or has exactly one even coordinate
\* and lies between two Floor cells with odd coordinates (a carved
\* midpoint).
C21_DungeonLattice ==
    gen.kind = "dungeon" =>
        \A c \in DOMAIN game_map.grid :
            /\ IsBorder(game_map, c) => game_map.grid[c] = "#"
            /\ (c[1] % 2 = 0 /\ c[2] % 2 = 0) => game_map.grid[c] = "#"
            /\ game_map.grid[c] = "." =>
                  \/ c[1] % 2 = 1 /\ c[2] % 2 = 1
                  \/ /\ c[1] % 2 = 0 /\ c[2] % 2 = 1
                     /\ game_map.grid[<<c[1] - 1, c[2]>>] = "."
                     /\ game_map.grid[<<c[1] + 1, c[2]>>] = "."
                  \/ /\ c[1] % 2 = 1 /\ c[2] % 2 = 0
                     /\ game_map.grid[<<c[1], c[2] - 1>>] = "."
                     /\ game_map.grid[<<c[1], c[2] + 1>>] = "."

\* A dungeon of at least 5 x 5 was returned with a horizontal and a
\* vertical carved midpoint.
C21_Witness ==
    /\ gen.kind = "dungeon"
    /\ pc = "returned"
    /\ gen.width >= 5 /\ gen.height >= 5
    /\ \E c \in DOMAIN game_map.grid :
          game_map.grid[c] = "." /\ c[1] % 2 = 0
    /\ \E c \in DOMAIN game_map.grid :
          game_map.grid[c] = "." /\ c[2] % 2 = 0

(***************************************************************************)
(* Map.                                                                    *)
(***************************************************************************)
\* C9: for a coordinate outside the grid get_cell returns wall, is_floor is
\* false and set_cell leaves every cell of the grid unchanged.
C9_OutOfBoundsIsWall ==
    [][OutOfBounds(game_map, call'.x, call'.y) =>
          /\ call'.op = "get_cell" => ret'.cell = "#"
          /\ call'.op = "is_floor" => ret'.flag = FALSE
          /\ call'.op = "set_cell" => game_map' = game_map]_vars

\* set_cell was called with floor for a coordinate outside a grid that has
\* floor cells.
C9_Witness ==
    /\ call.op = "set_cell"
    /\ call.char = "."
    /\ OutOfBounds(game_map, call.x, call.y)
    /\ FloorCells(game_map) # {}

(***************************************************************************)
(* AIDirector.                                                             *)
(***************************************************************************)
\* C3: calculate_shortest_path(p, q) is -1 exactly when no 4-directional
\* floor path joins p and q (also when an endpoint is not floor or out of
\* bounds); otherwise it is the number of steps of a shortest such path,
\* which is 0 when p = q.
C3_ShortestPath ==
    call.op = "calculate_shortest_path" =>
        LET p == <<call.x, call.y>>
            q == <<call.end_x, call.end_y>>
        IN /\ ret.path = -1 <=> ~Connected(game_map, p, q)
           /\ Connected(game_map, p, q) =>
                 ret.path = StepsFrom(game_map, {p}, q, 0)
           /\ (p = q /\ p \in FloorCells(game_map)) => ret.path = 0

\* A path was found that is longer than the straight distance: the search
\* went around a wall.
C3_Witness ==
    /\ call.op = "calculate_shortest_path"
    /\ ret.path > AbsDiff(call.x, call.end_x) + AbsDiff(call.y, call.end_y)

\* C4: calculate_shortest_path(p, q) = calculate_shortest_path(q, p), the
\* -1 results included.
C4_Symmetric ==
    call.op = "calculate_shortest_path" =>
        ret.path = calculate_shortest_path(game_map, call.end_x, call.end_y,
                                           call.x, call.y)

\* A path of at least three steps was found between two cells.
C4_Witness ==
    /\ call.op = "calculate_shortest_path"
    /\ ret.path >= 3

\* C5: find_strategic_exit_position never returns the player's own
\* coordinate.
C5_NeverThePlayer ==
    call.op = "find_strategic_exit_position" =>
        ret.exit # <<call.x, call.y>>

\* C6: a coordinate returned by find_strategic_exit_position is a floor cell
\* joined to the player's cell by a 4-directional floor path.
C6_FloorAndConnected ==
    (call.op = "find_strategic_exit_position" /\ ret.exit # <<>>) =>
        /\ ret.exit \in FloorCells(game_map)
        /\ Connected(game_map, <<call.x, call.y>>, ret.exit)

\* C7: when the player's cell has no floor neighbour to reach (the distance
\* map holds only the player), find_strategic_exit_position returns None.
C7_IsolatedGivesNone ==
    (call.op = "find_strategic_exit_position"
        /\ FloorNeighbours(game_map, {<<call.x, call.y>>}) = {}) =>
        ret.exit = <<>>

\* C8: if a cell reachable from the player has distance >= min_distance,
\* the returned cell has distance >= min_distance; if none has, the
\* returned cell has the greatest distance of the reachable cells.
C8_FarOrFarthest ==
    call.op = "find_strategic_exit_position" =>
        LET player == <<call.x, call.y>>
            reachable == FloorClosure(game_map, {player})
            far == {c \in reachable :
                      StepsFrom(game_map, {player}, c, 0) >= call.min_distance}
        IN /\ ret.exit \in reachable
           /\ IF far # {}
              THEN StepsFrom(game_map, {player}, ret.exit, 0)
                      >= call.min_distance
              ELSE \A c \in reachable :
                      StepsFrom(game_map, {player}, c, 0)
                         <= StepsFrom(game_map, {player}, ret.exit, 0)

\* The fallback ran with cells to choose from: nothing is min_distance
\* away, and the returned cell is two or more steps from the player.
C8_Witness ==
    /\ call.op = "find_strategic_exit_position"
    /\ ret.exit # <<>>
    /\ LET d == StepsFrom(game_map, {<<call.x, call.y>>}, ret.exit, 0)
       IN d >= 2 /\ d < call.min_distance

====
